---------------------------- MODULE Spec2Model ----------------------------
(***************************************************************************)
(* node2vec: the Node2Vec class of node2vec/node2vec.py.                   *)
(*                                                                         *)
(* The constructor checks temp_folder, pre-computes the transition         *)
(* probabilities of every (source, current) pair of the graph into d_graph *)
(* and generates the random walks; fit hands the walks to Word2Vec.        *)
(*                                                                         *)
(* Numbers: the code computes the probabilities in floating point          *)
(* (numpy).  The model computes them as exact fractions <<num, den>>, so   *)
(* a sum is 1 exactly where the code's is 1 up to rounding.  The results   *)
(* of a division by zero are kept apart: 0/0 is NaN, x/0 is Inf.           *)
(***************************************************************************)
EXTENDS Integers, Sequences, FiniteSets, TLC

(***************************************************************************)
(* Bounds of the model.                                                    *)
(***************************************************************************)
MaxPQ == 2
MaxWalkLength == 3
MaxNumWalks == 2
MaxWorkers == 3
MaxDim == 2

\* The node identifiers of the graphs, and the weights an edge may carry.
Nodes == {"a", "b", "c"}
Weights == {0, 1}
\* Node orders graph.nodes() is drawn from.
NodeOrders == {<<"a", "b", "c">>, <<"c", "a", "b">>}

(***************************************************************************)
(* Class constants (node2vec.py, lines 18-25).                             *)
(***************************************************************************)
FIRST_TRAVEL_KEY == "first_travel_key"
PROBABILITIES_KEY == "probabilities"
NEIGHBORS_KEY == "neighbors"
NUM_WALKS_KEY == "num_walks"
WALK_LENGTH_KEY == "walk_length"
P_KEY == "p"
Q_KEY == "q"

None == "None"

VARIABLES
    pc,                 \* where the program is
    graph,              \* self.graph: [nodes: order of graph.nodes(), adj: adjacency]
    dimensions, walk_length, num_walks, p, q, weight_key, workers,
    sampling_strategy,  \* self.sampling_strategy
    temp_folder_arg,    \* the temp_folder argument of __init__
    temp_folder, require,
    d_graph,            \* self.d_graph
    first_travel_done,  \* the local set of _precompute_probabilities
    src_i, cur_i,       \* positions of the two loops of _precompute_probabilities
    num_walks_lists,    \* np.array_split(range(num_walks), workers)
    worker, n_walk, node_i, walk,   \* position of the walk generation
    walk_results,       \* what each worker returned
    walks,              \* self.walks
    skip_gram_params,   \* the keyword arguments the caller gave fit
    w2v_params          \* the keyword arguments fit hands to gensim.models.Word2Vec

inputs == <<graph, dimensions, walk_length, num_walks, p, q, weight_key, workers,
            sampling_strategy, temp_folder_arg>>
walkvars == <<num_walks_lists, worker, n_walk, node_i, walk, walk_results, walks>>
fitvars == <<skip_gram_params, w2v_params>>
vars == <<pc, inputs, temp_folder, require, d_graph, first_travel_done,
          src_i, cur_i, walkvars, fitvars>>

(***************************************************************************)
(* Python dictionaries: functions on the set of their keys.                *)
(***************************************************************************)
EmptyDict == [x \in {} |-> 0]

Get(d, k, default) == IF k \in DOMAIN d THEN d[k] ELSE default

Put(d, k, v) == [x \in (DOMAIN d) \cup {k} |-> IF x = k THEN v ELSE d[x]]

\* The dictionaries with keys among K and values among V.
Dicts(K, V) == UNION {[S -> V] : S \in SUBSET K}

(***************************************************************************)
(* Fractions.                                                              *)
(***************************************************************************)
RECURSIVE GCD(_, _)
GCD(a, b) == IF b = 0 THEN a ELSE GCD(b, a % b)

NaN == <<0, 0>>
Inf == <<1, 0>>

Rat(n, d) == LET g == GCD(n, d) IN <<n \div g, d \div g>>

IsFinite(x) == x[2] # 0

RatAdd(x, y) == Rat(x[1] * y[2] + y[1] * x[2], x[2] * y[2])

\* numpy's true division of floats: 0/0 is nan and x/0 is inf (a warning, no error).
RatDiv(x, y) ==
    IF y[1] = 0
    THEN (IF x[1] = 0 THEN NaN ELSE Inf)
    ELSE Rat(x[1] * y[2], x[2] * y[1])

RECURSIVE RatSum(_)
RatSum(ws) == IF ws = <<>> THEN <<0, 1>> ELSE RatAdd(ws[1], RatSum(Tail(ws)))


\* unnormalized_weights / unnormalized_weights.sum() (lines 159-161, 164-167); the
\* quotient of an empty array is the empty array.
NormalizeNoDivision(ws) == ws
Normalize(ws) == [i \in 1..Len(ws) |-> RatDiv(ws[i], RatSum(ws))]

(***************************************************************************)
(* The graph provider (networkx).  An undirected graph is an adjacency     *)
(* that is symmetric; the code reads a graph only through nodes(),         *)
(* neighbors(n) and graph[u][v].                                           *)
(***************************************************************************)
\* graph.neighbors(n), in the order the graph yields them.
Neighbors(n) == SelectSeq(graph.nodes, LAMBDA m : m \in DOMAIN graph.adj[n])

\* self.graph[u][v].get(self.weight_key, 1)
EdgeWeight(u, v) == Get(graph.adj[u][v], weight_key, 1)

IsEdge(u, v) == v \in DOMAIN graph.adj[u]

(***************************************************************************)
(* _precompute_probabilities (lines 93-171).                               *)
(***************************************************************************)
\* Lines 121-130: p and q of current_node.
EffectiveP(node) ==
    IF node \in DOMAIN sampling_strategy
    THEN Get(sampling_strategy[node], P_KEY, p) ELSE p

EffectiveQ(node) ==
    IF node \in DOMAIN sampling_strategy
    THEN Get(sampling_strategy[node], Q_KEY, q) ELSE q

\* Lines 132-145: the unnormalized weight of the step current -> destination
\* of a walk that came from source.
SsWeightSwapped(source, current, destination) ==
    IF destination = source
    THEN Rat(EdgeWeight(current, destination) * 1, EffectiveQ(current))
    ELSE IF IsEdge(source, destination)
    THEN Rat(EdgeWeight(current, destination), 1)
    ELSE Rat(EdgeWeight(current, destination) * 1, EffectiveP(current))
SsWeight(source, current, destination) ==
    IF destination = source
    THEN Rat(EdgeWeight(current, destination) * 1, EffectiveP(current))
    ELSE IF IsEdge(source, destination)
    THEN Rat(EdgeWeight(current, destination), 1)
    ELSE Rat(EdgeWeight(current, destination) * 1, EffectiveQ(current))

\* Lines 116, 156: d_neighbors.
DNeighborsButLast(current) ==
    SubSeq(Neighbors(current), 1, Len(Neighbors(current)) - 1)
DNeighbors(current) == Neighbors(current)

\* Lines 114, 149: unnormalized_weights.
UnnormalizedWeights(source, current) ==
    [i \in 1..Len(Neighbors(current)) |->
        SsWeight(source, current, Neighbors(current)[i])]

\* Lines 115, 150-155: first_travel_weights.
FirstTravelWeightsBiased(source, current) == UnnormalizedWeights(source, current)
FirstTravelWeights(source, current) ==
    [i \in 1..Len(Neighbors(current)) |->
        Rat(EdgeWeight(current, Neighbors(current)[i]), 1)]

\* Lines 105-106, 111-112: d_graph is a defaultdict(dict); reading d_graph[node]
\* creates the entry.
InitProbabilities(dg, node) ==
    LET entry == Get(dg, node, EmptyDict) IN
    IF PROBABILITIES_KEY \in DOMAIN entry
    THEN Put(dg, node, entry)
    ELSE Put(dg, node, Put(entry, PROBABILITIES_KEY, EmptyDict))

\* Lines 160-161: d_graph[current_node][PROBABILITIES_KEY][source] = vector.
StoreProbabilitiesReversed(dg, source, current, vector) ==
    Put(dg, current, Put(dg[current], PROBABILITIES_KEY,
        Put(dg[current][PROBABILITIES_KEY], current, vector)))
StoreProbabilities(dg, source, current, vector) ==
    Put(dg, current, Put(dg[current], PROBABILITIES_KEY,
        Put(dg[current][PROBABILITIES_KEY], source, vector)))

\* Lines 163-168: the first-travel vector, once per current_node.
StoreFirstTravel(dg, done, source, current) ==
    IF current \notin done
    THEN Put(dg, current, Put(dg[current], FIRST_TRAVEL_KEY,
             Normalize(FirstTravelWeights(source, current))))
    ELSE dg

\* Lines 111-171: the body of the inner loop, for one (source, current_node).
PrecomputePair(dg, done, source, current) ==
    LET dg1 == InitProbabilities(dg, current)
        dg2 == StoreProbabilities(dg1, source, current,
                   Normalize(UnnormalizedWeights(source, current)))
        dg3 == StoreFirstTravel(dg2, done, source, current)
    IN  Put(dg3, current, Put(dg3[current], NEIGHBORS_KEY, DNeighbors(current)))

Source == graph.nodes[src_i]
CurrentNode == Neighbors(Source)[cur_i]

\* Lines 102-106: the head of the outer loop.
PrecomputeSource ==
    /\ pc = "precompute"
    /\ src_i <= Len(graph.nodes)
    /\ cur_i = 0
    /\ d_graph' = InitProbabilities(d_graph, Source)
    /\ IF Neighbors(Source) = <<>>
       THEN src_i' = src_i + 1 /\ cur_i' = 0
       ELSE src_i' = src_i /\ cur_i' = 1
    /\ UNCHANGED <<pc, inputs, temp_folder, require, first_travel_done,
                   walkvars, fitvars>>

\* Lines 108-171: one turn of the inner loop.
PrecomputeCurrent ==
    /\ pc = "precompute"
    /\ src_i <= Len(graph.nodes)
    /\ cur_i >= 1
    /\ d_graph' = PrecomputePair(d_graph, first_travel_done, Source, CurrentNode)
    /\ first_travel_done' = first_travel_done \cup {CurrentNode}
    /\ IF cur_i = Len(Neighbors(Source))
       THEN src_i' = src_i + 1 /\ cur_i' = 0
       ELSE src_i' = src_i /\ cur_i' = cur_i + 1
    /\ UNCHANGED <<pc, inputs, temp_folder, require, walkvars, fitvars>>

\* Lines 90-91: _precompute_probabilities returns and _generate_walks is called.
PrecomputeDone ==
    /\ pc = "precompute"
    /\ src_i > Len(graph.nodes)
    /\ pc' = "generate_walks"
    /\ UNCHANGED <<inputs, temp_folder, require, d_graph, first_travel_done,
                   src_i, cur_i, walkvars, fitvars>>

(***************************************************************************)
(* __init__ (lines 63-91).                                                 *)
(***************************************************************************)
\* The directories of the file system: os.path.isdir (line 81).
ExistingDirs == {"/tmp"}
IsDir(path) == path \in ExistingDirs

\* Python's truth value of the temp_folder argument (line 80).
Truthy(x) == x # None /\ x # ""

\* Lines 79-88: the check of temp_folder.
TempFolderNeverFails == FALSE
TempFolderFails == Truthy(temp_folder_arg) /\ ~IsDir(temp_folder_arg)

Construct ==
    /\ pc = "init"
    /\ IF TempFolderFails
       THEN /\ pc' = "NotADirectoryError"
            /\ UNCHANGED <<temp_folder, require>>
       ELSE /\ pc' = "precompute"
            /\ temp_folder' = IF Truthy(temp_folder_arg) THEN temp_folder_arg ELSE None
            /\ require' = IF Truthy(temp_folder_arg) THEN "sharedmem" ELSE None
    /\ UNCHANGED <<inputs, d_graph, first_travel_done, src_i, cur_i,
                   walkvars, fitvars>>

(***************************************************************************)
(* The inputs.                                                             *)
(***************************************************************************)
\* The attributes of an edge: every edge carries a "weight".
AttrDicts == {[weight |-> w] : w \in Weights}
WeightKeys == {"weight", "cost"}

\* The adjacencies without self-loops.
Adjacencies ==
    {adj \in [Nodes -> Dicts(Nodes, AttrDicts)] : \A n \in Nodes : n \notin DOMAIN adj[n]}

Graphs == {[nodes |-> o, adj |-> a] : o \in NodeOrders, a \in Adjacencies}

\* The nodes a sampling strategy names.
StrategyNodes == {"a"}

\* The sampling strategies in which one node overrides key k with a value of V.
Overrides(k, V) == {[x \in {n} |-> [y \in {k} |-> v]] : n \in StrategyNodes, v \in V}

\* Sampling strategies of the probability phase: none, or an override of p or of q.
PQStrategies ==
    {EmptyDict} \cup Overrides(P_KEY, 1..MaxPQ) \cup Overrides(Q_KEY, 1..MaxPQ)

\* The state right after the fields are assigned (lines 63-79).
InitRest ==
    /\ pc = "init"
    /\ temp_folder = None /\ require = None
    /\ d_graph = EmptyDict
    /\ first_travel_done = {}
    /\ src_i = 1 /\ cur_i = 0
    /\ num_walks_lists = <<>>
    /\ worker = 0 /\ n_walk = 0 /\ node_i = 0 /\ walk = <<>>
    /\ walk_results = <<>>
    /\ walks = None
    /\ skip_gram_params = None
    /\ w2v_params = None

InitPre ==
    /\ graph \in Graphs
    /\ p \in 1..MaxPQ /\ q \in 1..MaxPQ
    /\ weight_key \in WeightKeys
    /\ sampling_strategy \in PQStrategies
    /\ temp_folder_arg = None
    /\ dimensions = 1 /\ walk_length = 1 /\ num_walks = 1 /\ workers = 1
    /\ InitRest

NextPre == Construct \/ PrecomputeSource \/ PrecomputeCurrent \/ PrecomputeDone

SpecPre == InitPre /\ [][NextPre]_vars


(***************************************************************************)
(* _generate_walks (lines 173-202).                                        *)
(***************************************************************************)
Min(x, y) == IF x < y THEN x ELSE y

\* Line 181: np.array_split(range(n), k): k contiguous slices, the first n % k
\* of them one longer than the others.
ArraySplitFloor(n, k) ==
    [i \in 1..k |-> [j \in 1..(n \div k) |-> (i - 1) * (n \div k) + j - 1]]
ArraySplit(n, k) ==
    [i \in 1..k |->
        LET each == n \div k
            extras == n % k
            start == (i - 1) * each + Min(i - 1, extras)
            size == each + (IF i <= extras THEN 1 ELSE 0)
        IN  [j \in 1..size |-> start + j - 1]]

\* Line 178: flatten.
RECURSIVE Flatten(_)
Flatten(l) == IF l = <<>> THEN <<>> ELSE l[1] \o Flatten(Tail(l))

\* Lines 181-198: the slices are made and the first worker starts.  The workers
\* only read d_graph and each returns its own list, which the caller concatenates
\* in worker order: the model runs them one after the other.
GenerateWalks ==
    /\ pc = "generate_walks"
    /\ num_walks_lists' = ArraySplit(num_walks, workers)
    /\ worker' = 1 /\ n_walk' = 0 /\ node_i' = 1 /\ walk' = <<>>
    /\ walk_results' = << <<>> >>
    /\ pc' = "walking"
    /\ UNCHANGED <<inputs, temp_folder, require, d_graph, first_travel_done,
                   src_i, cur_i, walks, fitvars>>

(***************************************************************************)
(* parallel_generate_walks (node2vec/parallel.py), called at lines 186-196 *)
(* with len(num_walks), the length of the worker's slice.                  *)
(***************************************************************************)
\* The worker's number of repetitions.
WorkerNumWalks == Len(num_walks_lists[worker])

\* The nodes a worker iterates, once per repetition.
WalkNodes == SelectSeq(graph.nodes, LAMBDA n : n \in DOMAIN d_graph)

\* The effective walk length of a start node.
WalkLengthOf(source) ==
    IF source \in DOMAIN sampling_strategy
    THEN Get(sampling_strategy[source], WALK_LENGTH_KEY, walk_length)
    ELSE walk_length

\* A node whose own number of walks is used up is skipped.
SkipNode(source, n) ==
    /\ source \in DOMAIN sampling_strategy
    /\ NUM_WALKS_KEY \in DOMAIN sampling_strategy[source]
    /\ sampling_strategy[source][NUM_WALKS_KEY] <= n

\* The recorded neighbors of a node: none when the node has no NeighborList.
WalkOptions(node) == Get(d_graph[node], NEIGHBORS_KEY, <<>>)

\* The position after the walk of WalkNodes[node_i] in repetition n_walk.
AdvanceNode ==
    IF node_i = Len(WalkNodes)
    THEN node_i' = 1 /\ n_walk' = n_walk + 1
    ELSE node_i' = node_i + 1 /\ n_walk' = n_walk

\* A walk starts at the next node, or the node is skipped.
WalkStart ==
    /\ pc = "walking"
    /\ walk = <<>>
    /\ n_walk < WorkerNumWalks
    /\ node_i <= Len(WalkNodes)
    /\ IF SkipNode(WalkNodes[node_i], n_walk)
       THEN AdvanceNode /\ walk' = <<>>
       ELSE walk' = <<WalkNodes[node_i]>> /\ UNCHANGED <<node_i, n_walk>>
    /\ UNCHANGED <<pc, inputs, temp_folder, require, d_graph, first_travel_done,
                   src_i, cur_i, num_walks_lists, worker, walk_results, walks,
                   fitvars>>

WalkGoesOn == Len(walk) < WalkLengthOf(walk[1]) /\ WalkOptions(walk[Len(walk)]) # <<>>

\* One step of the walk sampler: the first step draws from the first-travel vector,
\* a later one from the vector of (current, previous); a missing vector is a lookup
\* error, and a vector that is no distribution cannot be drawn from.
WalkStep ==
    /\ pc = "walking"
    /\ walk # <<>>
    /\ WalkGoesOn
    /\ LET current == walk[Len(walk)]
           table == IF Len(walk) = 1
                    THEN d_graph[current]
                    ELSE d_graph[current][PROBABILITIES_KEY]
           key == IF Len(walk) = 1 THEN FIRST_TRAVEL_KEY ELSE walk[Len(walk) - 1]
       IN  IF key \notin DOMAIN table
           THEN pc' = "KeyError" /\ walk' = walk
           ELSE IF \E i \in 1..Len(table[key]) : ~IsFinite(table[key][i])
           THEN pc' = "ValueError" /\ walk' = walk
           ELSE /\ pc' = pc
                /\ \E i \in 1..Len(table[key]) :
                      /\ table[key][i][1] > 0
                      /\ walk' = Append(walk, WalkOptions(current)[i])
    /\ UNCHANGED <<inputs, temp_folder, require, d_graph, first_travel_done,
                   src_i, cur_i, num_walks_lists, worker, n_walk, node_i,
                   walk_results, walks, fitvars>>

\* The walk has its length, or stands at a node without recorded neighbors: it is
\* added to the worker's list.
WalkEnd ==
    /\ pc = "walking"
    /\ walk # <<>>
    /\ ~WalkGoesOn
    /\ walk_results' = [walk_results EXCEPT ![worker] = Append(@, walk)]
    /\ walk' = <<>>
    /\ AdvanceNode
    /\ UNCHANGED <<pc, inputs, temp_folder, require, d_graph, first_travel_done,
                   src_i, cur_i, num_walks_lists, worker, walks, fitvars>>

\* A worker has done its repetitions: the next one starts.
WorkerDone ==
    /\ pc = "walking"
    /\ walk = <<>>
    /\ n_walk >= WorkerNumWalks
    /\ worker < Len(num_walks_lists)
    /\ worker' = worker + 1 /\ n_walk' = 0 /\ node_i' = 1
    /\ walk_results' = Append(walk_results, <<>>)
    /\ UNCHANGED <<pc, inputs, temp_folder, require, d_graph, first_travel_done,
                   src_i, cur_i, num_walks_lists, walk, walks, fitvars>>

\* Lines 200-202 and 91: the last worker is done, self.walks is the flat list.
GenerateWalksDone ==
    /\ pc = "walking"
    /\ walk = <<>>
    /\ n_walk >= WorkerNumWalks
    /\ worker = Len(num_walks_lists)
    /\ walks' = Flatten(walk_results)
    /\ pc' = "constructed"
    /\ UNCHANGED <<inputs, temp_folder, require, d_graph, first_travel_done,
                   src_i, cur_i, num_walks_lists, worker, n_walk, node_i, walk,
                   walk_results, fitvars>>

(***************************************************************************)
(* fit (lines 204-219).                                                    *)
(***************************************************************************)
\* Lines 213-217: the defaults fit adds to the caller's parameters.
FitParamsForced(params) ==
    Put(Put(params, "workers", Get(params, "workers", workers)), "size", dimensions)
FitParams(params) ==
    LET with_workers == IF "workers" \notin DOMAIN params
                        THEN Put(params, "workers", workers) ELSE params
    IN  IF "size" \notin DOMAIN with_workers
        THEN Put(with_workers, "size", dimensions) ELSE with_workers

\* The parameters a caller gives fit.
SkipGramParams == Dicts({"size"}, 1..MaxDim) \cup Dicts({"workers"}, {1})

Fit ==
    /\ pc = "constructed"
    /\ \E params \in SkipGramParams :
          /\ skip_gram_params' = params
          /\ w2v_params' = FitParams(params)
    /\ pc' = "fitted"
    /\ UNCHANGED <<inputs, temp_folder, require, d_graph, first_travel_done,
                   src_i, cur_i, walkvars>>

(***************************************************************************)
(* The whole program.                                                      *)
(***************************************************************************)
MaxArcs == 4
MaxArcsFew == 2

Arcs(adj) == {e \in Nodes \X Nodes : e[2] \in DOMAIN adj[e[1]]}

\* The graphs of at most k arcs with weights among W, in one node order.
GraphsUpTo(k, W) ==
    {[nodes |-> <<"a", "b", "c">>, adj |-> a] :
        a \in {x \in Adjacencies :
                 /\ Cardinality(Arcs(x)) <= k
                 /\ \A e \in Arcs(x) : x[e[1]][e[2]].weight \in W}}

\* One graph for the inputs that do not concern the graph: a -> b -> c and b -> a.
PathGraph ==
    [nodes |-> <<"a", "b", "c">>,
     adj |-> [n \in Nodes |->
                IF n = "a" THEN [x \in {"b"} |-> [weight |-> 1]]
                ELSE IF n = "b" THEN [x \in {"a", "c"} |-> [weight |-> 1]]
                ELSE EmptyDict]]

TempFolders == {None, "", "/tmp", "/missing", "/etc/passwd"}

\* The inputs of the walk sampler: the graph and the walk lengths vary.
InitSampler ==
    /\ graph \in GraphsUpTo(MaxArcs, Weights)
    /\ sampling_strategy \in
          {EmptyDict} \cup Overrides(WALK_LENGTH_KEY, 1..MaxWalkLength)
    /\ temp_folder_arg = None
    /\ dimensions = MaxDim
    /\ walk_length \in 1..MaxWalkLength
    /\ num_walks = 1
    /\ workers = 1

\* The inputs of the orchestrator: the numbers of walks and of workers vary, on
\* graphs with and without isolated nodes.
InitOrchestrator ==
    /\ graph \in GraphsUpTo(MaxArcsFew, {1})
    /\ sampling_strategy \in
          {EmptyDict} \cup Overrides(NUM_WALKS_KEY, 0..MaxNumWalks)
    /\ temp_folder_arg = None
    /\ dimensions = MaxDim
    /\ walk_length = 2
    /\ num_walks \in 0..MaxNumWalks
    /\ workers \in 1..MaxWorkers

\* The inputs of the configuration: temp_folder, dimensions and workers vary.
InitConfig ==
    /\ graph = PathGraph
    /\ sampling_strategy = EmptyDict
    /\ temp_folder_arg \in TempFolders
    /\ dimensions \in 1..MaxDim
    /\ walk_length = 2
    /\ num_walks = 1
    /\ workers \in 1..MaxWorkers

Init ==
    /\ p = 1 /\ q = 1
    /\ weight_key = "weight"
    /\ InitSampler \/ InitOrchestrator \/ InitConfig
    /\ InitRest

Next ==
    \/ NextPre
    \/ GenerateWalks \/ WalkStart \/ WalkStep \/ WalkEnd \/ WorkerDone
    \/ GenerateWalksDone
    \/ Fit

Spec == Init /\ [][Next]_vars

(***************************************************************************)
(* Properties of the probability tables.                                   *)
(***************************************************************************)
\* _precompute_probabilities has returned.
AfterPrecompute == pc \notin {"init", "precompute", "NotADirectoryError"}

\* TransitionTable[node]: the vectors of a node, by the node the walk came from.
TransitionTable(node) == d_graph[node][PROBABILITIES_KEY]

HasFirstTravel(node) == FIRST_TRAVEL_KEY \in DOMAIN d_graph[node]

\* Every probability vector stored for a node.
StoredVectors(node) ==
    {TransitionTable(node)[s] : s \in DOMAIN TransitionTable(node)}
    \cup (IF HasFirstTravel(node) THEN {d_graph[node][FIRST_TRAVEL_KEY]} ELSE {})

IsDistribution(v) ==
    /\ \A i \in 1..Len(v) : IsFinite(v[i]) /\ v[i][1] >= 0
    /\ RatSum(v) = <<1, 1>>

\* C1: after the pre-computation, every vector stored for a node that has a
\* neighbor has no negative entry and sums to 1.
C1_StoredVectorsAreDistributions ==
    AfterPrecompute =>
        \A n \in DOMAIN d_graph :
            Neighbors(n) # <<>> => \A v \in StoredVectors(n) : IsDistribution(v)

\* The bias rule as the claim C2 states it.
C2_Weight(source, current, d) ==
    LET attrs == graph.adj[current][d]
        w == IF weight_key \in DOMAIN attrs THEN attrs[weight_key] ELSE 1
        overrides == IF current \in DOMAIN sampling_strategy
                     THEN sampling_strategy[current] ELSE EmptyDict
        pp == IF "p" \in DOMAIN overrides THEN overrides["p"] ELSE p
        qq == IF "q" \in DOMAIN overrides THEN overrides["q"] ELSE q
    IN  CASE d = source -> <<w, pp>>
          [] d # source /\ d \in DOMAIN graph.adj[source] -> <<w, 1>>
          [] OTHER -> <<w, qq>>

\* x = y as fractions that need not be reduced.
C2_SameFraction(x, y) == x[1] * y[2] = y[1] * x[2]

\* C2: after the pre-computation, every vector TransitionTable[current][source] is
\* the vector of the weights of the bias rule, each divided by their sum: w/p for
\* the step back to source, w for a neighbor of source, w/q otherwise.
C2_TransitionWeightsFollowBiasRule ==
    AfterPrecompute =>
        \A current \in DOMAIN d_graph :
            \A source \in DOMAIN TransitionTable(current) :
                LET v == TransitionTable(current)[source]
                    nb == Neighbors(current)
                    total == RatSum([i \in 1..Len(nb) |->
                                       Rat(C2_Weight(source, current, nb[i])[1],
                                           C2_Weight(source, current, nb[i])[2])])
                IN  /\ Len(v) = Len(nb)
                    /\ \A i \in 1..Len(nb) :
                          IF total[1] = 0
                          THEN v[i] = NaN
                          ELSE /\ IsFinite(v[i])
                               \* v[i] * total = weight
                               /\ C2_SameFraction(
                                     <<v[i][1] * total[1], v[i][2] * total[2]>>,
                                     C2_Weight(source, current, nb[i]))

\* A vector holds the step back and a step outward, with p = 1 and q = 2: the
\* step back is twice as likely.
C2_Witness ==
    /\ AfterPrecompute
    /\ \E current \in DOMAIN d_graph :
          \E source \in DOMAIN TransitionTable(current) :
              \E i, j \in 1..Len(Neighbors(current)) :
                  /\ Neighbors(current)[i] = source
                  /\ Neighbors(current)[j] # source
                  /\ ~IsEdge(source, Neighbors(current)[j])
                  /\ EffectiveP(current) = 1 /\ EffectiveQ(current) = 2
                  /\ current \in DOMAIN sampling_strategy
                  /\ TransitionTable(current)[source][i] = <<2, 3>>
                  /\ TransitionTable(current)[source][j] = <<1, 3>>

\* C7: after the pre-computation, a node that holds a probability vector holds a
\* NeighborList, and each of its vectors is as long as the NeighborList.
C7_VectorsAlignedWithNeighborList ==
    AfterPrecompute =>
        \A n \in DOMAIN d_graph :
            StoredVectors(n) # {} =>
                /\ NEIGHBORS_KEY \in DOMAIN d_graph[n]
                /\ \A v \in StoredVectors(n) : Len(v) = Len(d_graph[n][NEIGHBORS_KEY])

\* A node reached from two sources holds three vectors of length 2.
C7_Witness ==
    /\ AfterPrecompute
    /\ \E n \in DOMAIN d_graph :
          /\ NEIGHBORS_KEY \in DOMAIN d_graph[n]
          /\ Len(d_graph[n][NEIGHBORS_KEY]) = 2
          /\ Cardinality(DOMAIN TransitionTable(n)) = 2
          /\ HasFirstTravel(n)

\* C8: no stored probability vector ever holds the result of 0/0.
C8_NoNaNStored ==
    \A n \in DOMAIN d_graph :
        \A v \in StoredVectors(n) : \A i \in 1..Len(v) : v[i] # NaN

\* The raw edge weights of a node, each divided by their sum.
C10_RawNormalized(n) ==
    LET nb == Neighbors(n)
        w(i) == IF weight_key \in DOMAIN graph.adj[n][nb[i]]
                THEN graph.adj[n][nb[i]][weight_key] ELSE 1
        total == RatSum([i \in 1..Len(nb) |-> <<w(i), 1>>])[1]
    IN  [i \in 1..Len(nb) |-> IF total = 0 THEN NaN ELSE Rat(w(i), total)]

C10_Unbiased ==
    \A n \in DOMAIN d_graph :
        /\ HasFirstTravel(n) <=> n \in first_travel_done
        /\ HasFirstTravel(n) => d_graph[n][FIRST_TRAVEL_KEY] = C10_RawNormalized(n)

C10_NeverOverwritten ==
    \A n \in DOMAIN d_graph :
        HasFirstTravel(n) =>
            d_graph'[n][FIRST_TRAVEL_KEY] = d_graph[n][FIRST_TRAVEL_KEY]

\* C10: the first-travel vector of a node is written once, when the node is first
\* reached, and never written again; it is the node's raw edge weights divided by
\* their sum, whatever the order of the nodes, p, q and the sampling strategy.
C10_FirstTravelOnceAndUnbiased ==
    [](C10_Unbiased) /\ [][C10_NeverOverwritten]_vars

\* A node with p = 2 has been reached from two sources, one of them a neighbor of
\* its own, and its first-travel vector is uniform.
C10_Witness ==
    /\ AfterPrecompute
    /\ \E n \in DOMAIN d_graph :
          /\ Cardinality(DOMAIN TransitionTable(n)) = 2
          /\ EffectiveP(n) = 2
          /\ HasFirstTravel(n)
          /\ d_graph[n][FIRST_TRAVEL_KEY] = << <<1, 2>>, <<1, 2>> >>
          /\ \E s \in DOMAIN TransitionTable(n) :
                TransitionTable(n)[s] # d_graph[n][FIRST_TRAVEL_KEY]

(***************************************************************************)
(* Properties of the walks, of fit and of the constructor.                 *)
(***************************************************************************)
RECURSIVE SumLen(_)
SumLen(l) == IF l = <<>> THEN 0 ELSE Len(l[1]) + SumLen(Tail(l))

NumNodes == Len(graph.nodes)

NoNumWalksOverride ==
    \A n \in DOMAIN sampling_strategy : NUM_WALKS_KEY \notin DOMAIN sampling_strategy[n]

\* The slices are as many as the workers and their sizes sum to num_walks.
C3_SlicesCoverNumWalks ==
    pc \in {"walking", "constructed", "fitted"} =>
        /\ Len(num_walks_lists) = workers
        /\ SumLen(num_walks_lists) = num_walks

C4_WalkLengthOrDeadEnd ==
    \A w \in 1..Len(walk_results) :
        \A k \in 1..Len(walk_results[w]) :
            LET wk == walk_results[w][k] IN
            \/ Len(wk) = WalkLengthOf(wk[1])
            \/ Len(wk) < WalkLengthOf(wk[1]) /\ Neighbors(wk[Len(wk)]) = <<>>

NothingComputed ==
    /\ d_graph = EmptyDict
    /\ walk_results = <<>>
    /\ walks = None

\* C6 as stated: a temp_folder that is not an existing directory ends the
\* constructor in the error, with nothing computed.
C6_NotADirectoryFails ==
    (pc # "init" /\ temp_folder_arg # None /\ ~IsDir(temp_folder_arg)) =>
        pc = "NotADirectoryError" /\ NothingComputed

\* C6, amended: a non-empty temp_folder that is not an existing directory ends the
\* constructor in the error, with nothing computed; and the error has no other
\* cause.
C6_NonEmptyNotADirectoryFails ==
    /\ (pc # "init" /\ Truthy(temp_folder_arg) /\ ~IsDir(temp_folder_arg)) =>
          pc = "NotADirectoryError" /\ NothingComputed
    /\ pc = "NotADirectoryError" => Truthy(temp_folder_arg) /\ ~IsDir(temp_folder_arg)

C6_Witness ==
    /\ pc = "NotADirectoryError"
    /\ temp_folder_arg = "/etc/passwd"
    /\ NothingComputed

\* C9: after the pre-computation every edge source -> current has its entry
\* TransitionTable[current][source], and no step of a walk fails its lookup.
C9_EveryEdgePairPrecomputed ==
    /\ AfterPrecompute =>
          \A s \in Nodes : \A c \in Nodes :
              IsEdge(s, c) => c \in DOMAIN d_graph /\ s \in DOMAIN TransitionTable(c)
    /\ pc # "KeyError"

\* A walk has taken a step that came from a previous node, to a third node.
C9_Witness ==
    /\ pc = "walking"
    /\ Len(walk) = 3
    /\ walk[3] # walk[1]

=============================================================================
